---- MODULE Spec2Model ----
(***************************************************************************)
(* The synchronisation controller of ParallelPlay: the Express handler     *)
(* app.post("/control") of src/00_StartApp.command (lines 249-821) and the *)
(* helpers it calls (sendCommand, getVLCStatus, readPaths, savePaths).     *)
(*                                                                         *)
(* The handler is an async function.  Between two awaits it runs without   *)
(* interruption; at an await (a command sent to a player, a status query,  *)
(* a setTimeout delay) other requests may run.  A request is modelled by   *)
(* its frame: pc (the point after the awaits now pending), todo (the       *)
(* awaits of the straight-line block being executed, in program order),    *)
(* loc (the handler's local variables) and resp (what res.json has sent).  *)
(* log is the trace of the effects the request has had on the outside:     *)
(* every HTTP request sent to a player and every delay, in order.          *)
(*                                                                         *)
(* The players are outside the program: a status query may return any      *)
(* status document or fail, and a command may fail, whatever was sent      *)
(* before.                                                                 *)
(*                                                                         *)
(* Time is counted in ticks of half a second, so that the 0.5 s tolerance  *)
(* of the sync case is one tick and is met exactly.                        *)
(***************************************************************************)
EXTENDS Integers, Sequences, FiniteSets, TLC

\* ------------------------------------------------------------------ bounds

\* Concurrent requests the server is handling (slots for handler frames).
NumClients == 2
\* Elapsed times a player reports: 0..MaxTime ticks, and one time far
\* enough into the media that a 10 s skip backwards does not reach 0.
MaxTime == 2
\* Numbers a caller sends as seekValue or speed: -MaxNum..MaxNum.
MaxNum == 2

\* ------------------------------------------------------- program constants

\* const threshold = 0.5 (seconds): one tick.
Threshold == 1
\* slaveTime + 1 / masterTime + 1 (seconds): two ticks.
Lead == 2
\* (statusMaster.time || 0) + 10 (seconds): twenty ticks.
SkipStep == 20
\* const retries = 3
Retries == 3

Clients == 1 .. NumClients
Times == (0 .. MaxTime) \cup {SkipStep + MaxTime}
Nums == (0 - MaxNum) .. MaxNum

Max(a, b) == IF a >= b THEN a ELSE b
Abs(a) == IF a >= 0 THEN a ELSE 0 - a

\* --------------------------------------------------------------- JS values

\* A value of a JSON request body, or undefined for a field that is absent.
JUndef == [t |-> "undefined", n |-> 0, s |-> ""]
JNull == [t |-> "null", n |-> 0, s |-> ""]
JBool(b) == [t |-> "boolean", n |-> IF b THEN 1 ELSE 0, s |-> ""]
JNum(n) == [t |-> "number", n |-> n, s |-> ""]
JStr(s) == [t |-> "string", n |-> 0, s |-> s]

\* ToBoolean: what `if (v)`, `!v`, `v && ...` and `v || ...` test.
Truthy(v) ==
  CASE v.t = "undefined" -> FALSE
    [] v.t = "null" -> FALSE
    [] v.t = "boolean" -> v.n = 1
    [] v.t = "number" -> v.n # 0
    [] v.t = "string" -> v.s # ""

\* a || b
Or(a, b) == IF Truthy(a) THEN a ELSE b

NaN == [nan |-> TRUE, n |-> 0]
Number(n) == [nan |-> FALSE, n |-> n]

\* StringToNumber: the empty string and white space are 0, a decimal
\* numeral is its value, any other text is NaN.
StringToNumber(s) ==
  IF s \in {"", " "} THEN Number(0)
  ELSE IF \E n \in Nums : ToString(n) = s
       THEN Number(CHOOSE n \in Nums : ToString(n) = s)
       ELSE NaN

\* ToNumber, the coercion isNaN(v) and `v > 0` apply to their operand.
ToNumber(v) ==
  CASE v.t = "undefined" -> NaN
    [] v.t = "null" -> Number(0)
    [] v.t = "boolean" -> Number(v.n)
    [] v.t = "number" -> Number(v.n)
    [] v.t = "string" -> StringToNumber(v.s)

isNaN(v) == ToNumber(v).nan

\* v > 0
GreaterThanZero(v) == ~ToNumber(v).nan /\ ToNumber(v).n > 0

\* `${v}` in a template literal: the text put in the URL.
TemplateText(v) ==
  CASE v.t = "undefined" -> "undefined"
    [] v.t = "null" -> "null"
    [] v.t = "boolean" -> (IF v.n = 1 THEN "true" ELSE "false")
    [] v.t = "number" -> ToString(v.n)
    [] v.t = "string" -> v.s

\* The values a caller may put in seekValue or speed.
JSValues ==
  {JUndef, JNull, JBool(TRUE), JBool(FALSE), JStr(""), JStr(" "), JStr("abc")}
    \cup {JNum(n) : n \in Nums}
    \cup {JStr(ToString(n)) : n \in Nums}

\* The values a caller may put in masterFile and in slaveFile.
MasterArgs == {JUndef, JStr(""), JStr("a.mp4")}
SlaveArgs == {JUndef, JStr(""), JStr("b.mp4")}

\* ------------------------------------------------------------ player status

\* What getVLCStatus resolves to: the parsed status document, or null when
\* the fetch or the JSON decoding failed (ok = FALSE).  hasTime is
\* typeof status.time !== "undefined".
NullStatus ==
  [ok |-> FALSE, state |-> "", hasTime |-> FALSE, time |-> 0, fullscreen |-> FALSE]

States == {"playing", "paused", "stopped"}

Documents ==
  {[ok |-> TRUE, state |-> st, hasTime |-> ht, time |-> tm, fullscreen |-> fs] :
     st \in States, ht \in BOOLEAN, tm \in Times, fs \in BOOLEAN}

\* The replies to a status query of which the handler reads only the fields
\* of `live`: the fields it never reads are left at their defaults.
StatusReplies(live) ==
  {NullStatus} \cup
  {d \in Documents :
     /\ (~d.hasTime => d.time = 0)
     /\ ("state" \notin live => d.state = "stopped")
     /\ ("time" \notin live => ~d.hasTime)
     /\ ("fullscreen" \notin live => ~d.fullscreen)}

\* status.time || 0
TimeOrZero(st) == IF st.hasTime THEN st.time ELSE 0

\* ---------------------------------------------------------------- paths.txt

\* The file is absent, or a sequence of lines "KEY=value".
NoFile == <<>>
Line(k, v) == [key |-> k, value |-> v]

\* savePaths: the whole file is overwritten with the two lines.
SavedFile(masterFile, slaveFile) ==
  << Line("MASTER_VIDEO_PATH", masterFile), Line("SLAVE_VIDEO_PATH", slaveFile) >>

\* lines.forEach: the last line with the key decides, "" when none has it.
RECURSIVE LastValue(_, _)
LastValue(lines, k) ==
  IF lines = <<>> THEN ""
  ELSE IF lines[Len(lines)].key = k THEN lines[Len(lines)].value
       ELSE LastValue(SubSeq(lines, 1, Len(lines) - 1), k)

readPaths(f) ==
  [masterFile |-> JStr(LastValue(f, "MASTER_VIDEO_PATH")),
   slaveFile |-> JStr(LastValue(f, "SLAVE_VIDEO_PATH"))]

\* -------------------------------------------------- awaits and their effects

StatusPath == "/requests/status.json"
\* VLC_URL_x.replace("/status.json", "")
BasePath == "/requests"

\* await sendCommand(`${url}?command=${cmd}&...=${val}`, PASSWORD)
Send(to, path, cmd, val) ==
  [k |-> "send", to |-> to, path |-> path, cmd |-> cmd, val |-> val,
   dest |-> "", live |-> {}]
\* await new Promise((resolve) => setTimeout(resolve, ms))
Wait(ms) ==
  [k |-> "wait", to |-> "timer", path |-> "", cmd |-> "delay", val |-> ms,
   dest |-> "", live |-> {}]
\* dest = await getVLCStatus(url, PASSWORD): the result is assigned to the
\* handler's local variable `dest` on resumption.
Get(to, dest, live) ==
  [k |-> "get", to |-> to, path |-> StatusPath, cmd |-> "status", val |-> "",
   dest |-> dest, live |-> live]

\* What the outside sees of an await.
Effect(item) ==
  [to |-> item.to, path |-> item.path, cmd |-> item.cmd, val |-> item.val]

If(c, block) == IF c THEN block ELSE <<>>

\* encodeURIComponent(v): v as text, escaped; modelled by the text the
\* player reads back from the input parameter.
encodeURIComponent(v) == TemplateText(v)

\* ------------------------------------------------------------ handler frame

Loc0 ==
  [masterFile |-> JUndef, slaveFile |-> JUndef,
   statusMaster |-> NullStatus, statusSlave |-> NullStatus,
   updatedStatusMaster |-> NullStatus, updatedStatusSlave |-> NullStatus,
   i |-> 0, masterOk |-> FALSE, slaveOk |-> FALSE]

Frame0 == [pc |-> "idle", todo |-> <<>>, loc |-> Loc0, resp |-> <<>>]

\* The labels at which a handler has ended: it returned ("done") or an
\* exception left the async function ("crashed": nothing was sent).
Ended == {"idle", "done", "crashed"}

\* A JSON object with one field.
Json(key, text) == {<<key, text>>}

\* Run `block`, then continue at `label`.
Await(f, block, label) == [f EXCEPT !.todo = block, !.pc = label]

\* return res.json({ error: text })
ReturnError(f, text) ==
  [f EXCEPT !.todo = <<>>, !.pc = "done", !.resp = Append(@, Json("error", text))]

\* return res.json({ message: text })
ReturnMessage(f, text) ==
  [f EXCEPT !.todo = <<>>, !.pc = "done", !.resp = Append(@, Json("message", text))]

\* break; out of the switch, to res.json({ message: responseMessage })
Break(f, responseMessage) == ReturnMessage(f, responseMessage)

\* A TypeError (a property of null is read) rejects the handler's promise:
\* the rest of the handler does not run and no response is sent.
Throw(f) == [f EXCEPT !.todo = <<>>, !.pc = "crashed"]

\* ------------------------------------------------- the cases of the switch

\* Both statuses, one await after the other (or one Promise.all: the two
\* fetches start together and the handler resumes when both have ended).
BothStatuses(live) ==
  << Get("master", "statusMaster", live), Get("slave", "statusSlave", live) >>

\* case "play", the fresh start: enqueue, pl_next, rate 1.0, seek 0 on both
\* players and the 1 s buffer.
ColdStartBlock(masterFile, slaveFile) ==
  << Send("master", StatusPath, "in_enqueue", encodeURIComponent(masterFile)),
     Send("slave", StatusPath, "in_enqueue", encodeURIComponent(slaveFile)),
     Send("master", StatusPath, "pl_next", ""),
     Send("slave", StatusPath, "pl_next", ""),
     Send("master", StatusPath, "rate", "1.0"),
     Send("slave", StatusPath, "rate", "1.0"),
     Send("master", StatusPath, "seek", "0"),
     Send("slave", StatusPath, "seek", "0"),
     Wait("1000") >>

\* ResumingFromPause with && for ||: a resume only when both are paused.
ResumingFromPause_Both(statusMaster, statusSlave) ==
  statusMaster.state = "paused" /\ statusSlave.state = "paused"

\* masterPaused || slavePaused, with statusX?.state
ResumingFromPause(statusMaster, statusSlave) ==
  statusMaster.state = "paused" \/ statusSlave.state = "paused"

\* case "play" from the status check to the second status query.
PlayBlock(resumingFromPause, masterFile, slaveFile) ==
  If(~resumingFromPause, ColdStartBlock(masterFile, slaveFile))
    \o << Send("master", StatusPath, "pl_play", ""),
          Send("slave", StatusPath, "pl_play", ""),
          Wait("300"),
          Get("master", "updatedStatusMaster", {"fullscreen"}),
          Get("slave", "updatedStatusSlave", {"fullscreen"}) >>

\* if (!fullscreenMaster) ...; if (!fullscreenSlave) ...
FullscreenBlock(fullscreenMaster, fullscreenSlave) ==
  If(~fullscreenMaster, << Send("master", StatusPath, "fullscreen", "") >>)
    \o If(~fullscreenSlave, << Send("slave", StatusPath, "fullscreen", "") >>)

\* PauseBlock with the pauses sent before the seeks.
PauseBlock_PauseFirst(maxTime, isMasterPlaying, isSlavePlaying) ==
  If(isMasterPlaying, << Send("master", StatusPath, "pl_pause", "") >>)
    \o If(isSlavePlaying, << Send("slave", StatusPath, "pl_pause", "") >>)
    \o << Send("master", StatusPath, "seek", ToString(maxTime)),
          Send("slave", StatusPath, "seek", ToString(maxTime)) >>

\* PauseBlock without the tests of isMasterPlaying and isSlavePlaying.
PauseBlock_PauseBoth(maxTime, isMasterPlaying, isSlavePlaying) ==
  << Send("master", StatusPath, "seek", ToString(maxTime)),
     Send("slave", StatusPath, "seek", ToString(maxTime)),
     Send("master", StatusPath, "pl_pause", ""),
     Send("slave", StatusPath, "pl_pause", "") >>

\* case "pause": seek both to the latest time, pause those that play.
PauseBlock(maxTime, isMasterPlaying, isSlavePlaying) ==
  << Send("master", StatusPath, "seek", ToString(maxTime)),
     Send("slave", StatusPath, "seek", ToString(maxTime)) >>
    \o If(isMasterPlaying, << Send("master", StatusPath, "pl_pause", "") >>)
    \o If(isSlavePlaying, << Send("slave", StatusPath, "pl_pause", "") >>)

\* StopBlock without the slave's command.
StopBlock_MasterOnly ==
  << Send("master", StatusPath, "pl_stop", "") >>

\* case "stop"
StopBlock ==
  << Send("master", StatusPath, "pl_stop", ""),
     Send("slave", StatusPath, "pl_stop", "") >>

\* if (seekValue && !isNaN(seekValue))
SeekValueValid(seekValue) == Truthy(seekValue) /\ ~isNaN(seekValue)

\* case "seek"
SeekBlock(seekValue) ==
  << Send("master", StatusPath, "seek", TemplateText(seekValue)),
     Send("slave", StatusPath, "seek", TemplateText(seekValue)) >>

\* SkipBlock with the master's new time sent to both players.
SkipBlock_MasterTime(masterTime, slaveTime) ==
  << Send("master", StatusPath, "seek", ToString(masterTime)),
     Send("slave", StatusPath, "seek", ToString(masterTime)) >>

\* case "skip_forward", case "skip_backward": each player to its own time.
SkipBlock(masterTime, slaveTime) ==
  << Send("master", StatusPath, "seek", ToString(masterTime)),
     Send("slave", StatusPath, "seek", ToString(slaveTime)) >>

\* case "wakeUp" up to the status query.
WakeUpBlock(masterFile, slaveFile) ==
  << Send("master", StatusPath, "in_enqueue", encodeURIComponent(masterFile)),
     Send("slave", StatusPath, "in_enqueue", encodeURIComponent(slaveFile)),
     Wait("300"),
     Send("master", StatusPath, "pl_next", ""),
     Send("slave", StatusPath, "pl_next", ""),
     Send("master", StatusPath, "rate", "1.0"),
     Send("slave", StatusPath, "rate", "1.0"),
     Send("master", StatusPath, "seek", "0"),
     Send("slave", StatusPath, "seek", "0"),
     Wait("1000"),
     Send("master", StatusPath, "pl_play", ""),
     Send("slave", StatusPath, "pl_play", "") >>
    \o BothStatuses({"fullscreen"})

\* case "fullscreen": statusMaster and statusSlave are not declared in the
\* case, so the assignments are to variables of the global object.
FullscreenQueryBlock ==
  << Wait("300"),
     Get("master", "global.statusMaster", {"fullscreen"}),
     Get("slave", "global.statusSlave", {"fullscreen"}) >>

\* case "sync": the reload of one player with in_play, and its new status.
ReloadBlock(to, dest, file) ==
  << Send(to, BasePath, "in_play", encodeURIComponent(file)),
     Wait("350"),
     Get(to, dest, {"state", "time"}) >>

\* parseFloat(status.time)
parseFloat(st) == IF st.hasTime THEN Number(st.time) ELSE NaN

\* ExceedsThreshold with >= for >.
ExceedsThreshold_Inclusive(masterTime, slaveTime) ==
  /\ ~masterTime.nan
  /\ ~slaveTime.nan
  /\ Abs(masterTime.n - slaveTime.n) >= Threshold

\* Math.abs(masterTime - slaveTime) > threshold
ExceedsThreshold(masterTime, slaveTime) ==
  /\ ~masterTime.nan
  /\ ~slaveTime.nan
  /\ Abs(masterTime.n - slaveTime.n) > Threshold

\* SyncCorrectionBlock without the + 1 of the seek targets.
SyncCorrectionBlock_NoLead(masterTime, slaveTime) ==
  If(masterTime < slaveTime,
     << Send("master", StatusPath, "seek", ToString(slaveTime)) >>)
    \o If(~(masterTime < slaveTime) /\ slaveTime < masterTime,
          << Send("slave", StatusPath, "seek", ToString(masterTime)) >>)
    \o << Send("master", StatusPath, "pl_play", ""),
          Send("slave", StatusPath, "pl_play", "") >>

\* case "sync": seek the one behind to the other's time + 1, play both.
\* (The blank that ends the master's URL is dropped when the URL is parsed.)
SyncCorrectionBlock(masterTime, slaveTime) ==
  If(masterTime < slaveTime,
     << Send("master", StatusPath, "seek", ToString(slaveTime + Lead)) >>)
    \o If(~(masterTime < slaveTime) /\ slaveTime < masterTime,
          << Send("slave", StatusPath, "seek", ToString(masterTime + Lead)) >>)
    \o << Send("master", StatusPath, "pl_play", ""),
          Send("slave", StatusPath, "pl_play", "") >>

\* if (speed && !isNaN(speed) && speed > 0)
SpeedValid(speed) == Truthy(speed) /\ ~isNaN(speed) /\ GreaterThanZero(speed)

\* SetSpeedBlock with the slave's rate left at 1.0.
SetSpeedBlock_SlaveAtOne(speed) ==
  << Send("master", StatusPath, "rate", TemplateText(speed)),
     Send("slave", StatusPath, "rate", "1.0"),
     Wait("200") >>

\* case "setSpeed"
SetSpeedBlock(speed) ==
  << Send("master", StatusPath, "rate", TemplateText(speed)),
     Send("slave", StatusPath, "rate", TemplateText(speed)),
     Wait("200") >>

\* case "resetSpeed"
ResetSpeedBlock ==
  << Send("master", StatusPath, "rate", "1.0"),
     Send("slave", StatusPath, "rate", "1.0"),
     Wait("200") >>

\* SavePathsValid with the test of slaveFile alone.
SavePathsValid_SlaveOnly(masterFile, slaveFile) == Truthy(slaveFile)

\* if (masterFile && slaveFile) of case "savePaths"
SavePathsValid(masterFile, slaveFile) == Truthy(masterFile) /\ Truthy(slaveFile)

\* ------------------------------------ the handler, from one await to the next

\* A frame f whose block is done continues at f.pc; b is req.body, g the
\* global object's statusMaster and statusSlave.

\* case "setSpeed" (also entered from case "sync", which has no break when
\* the drift is within the threshold).
SetSpeedCase(f, b) ==
  IF SpeedValid(b.speed)
  THEN Await(f, SetSpeedBlock(b.speed), "setSpeed_sent")
  ELSE ReturnError(f, "Invalid speed value. Must be a positive number.")

\* SyncCorrected with res.json({ message }) but no return: the handler goes
\* on into case "setSpeed".
SyncCorrected_NoReturn(f, b) ==
  SetSpeedCase(
    [f EXCEPT !.resp = Append(@, Json("message", "Sync complete. Both players are now playing."))],
    b)

\* case "sync": the drift was corrected; return res.json({ message }).
SyncCorrected(f, b) ==
  ReturnMessage(f, "Sync complete. Both players are now playing.")

\* case "sync", lines 711-752: compare the times, correct the one behind.
SyncCompare(f, b) ==
  LET statusMaster == f.loc.statusMaster
      statusSlave == f.loc.statusSlave
      masterTime == parseFloat(statusMaster)
      slaveTime == parseFloat(statusSlave)
  IN IF ~statusMaster.ok \/ ~statusSlave.ok
     THEN Throw(f)
     ELSE IF ExceedsThreshold(masterTime, slaveTime)
          THEN Await(f, SyncCorrectionBlock(masterTime.n, slaveTime.n),
                     "sync_corrected")
          ELSE SetSpeedCase(f, b)

\* SyncReloadSlave without the test of statusSlave.state.
SyncReloadSlave_Always(f, b) ==
  IF ~f.loc.statusSlave.ok
  THEN Throw(f)
  ELSE Await(f, ReloadBlock("slave", "statusSlave", f.loc.slaveFile),
             "sync_slave_reloaded")

\* case "sync", lines 698-709: reload the slave if it is not playing.
SyncReloadSlave(f, b) ==
  IF ~f.loc.statusSlave.ok
  THEN Throw(f)
  ELSE IF f.loc.statusSlave.state # "playing"
       THEN Await(f, ReloadBlock("slave", "statusSlave", f.loc.slaveFile),
                  "sync_slave_reloaded")
       ELSE SyncCompare(f, b)

\* case "sync", lines 683-697: reload the master if it is not playing.
SyncReloadMaster(f, b) ==
  IF ~f.loc.statusMaster.ok
  THEN Throw(f)
  ELSE IF f.loc.statusMaster.state # "playing"
       THEN Await(f, ReloadBlock("master", "statusMaster", f.loc.masterFile),
                  "sync_master_reloaded")
       ELSE SyncReloadSlave(f, b)

\* SyncAfterPoll without the test of !masterOk && !slaveOk.
SyncAfterPoll_NoBothTest(f, b) ==
  IF ~f.loc.masterOk
  THEN Await(f, ReloadBlock("master", "statusMaster", f.loc.masterFile),
             "sync_master_woken")
  ELSE IF ~f.loc.slaveOk
       THEN Await(f, ReloadBlock("slave", "statusSlave", f.loc.slaveFile),
                  "sync_slave_woken")
       ELSE SyncReloadMaster(f, b)

\* case "sync", lines 647-681: after the polling loop.
SyncAfterPoll(f, b) ==
  IF ~f.loc.masterOk /\ ~f.loc.slaveOk
  THEN ReturnError(f, "Both VLC systems are unreachable.")
  ELSE IF ~f.loc.masterOk
       THEN Await(f, ReloadBlock("master", "statusMaster", f.loc.masterFile),
                  "sync_master_woken")
       ELSE IF ~f.loc.slaveOk
            THEN Await(f, ReloadBlock("slave", "statusSlave", f.loc.slaveFile),
                       "sync_slave_woken")
            ELSE SyncReloadMaster(f, b)

\* statusX && typeof statusX.time !== "undefined"
StatusOk(st) == st.ok /\ st.hasTime

\* SyncPolled without the break of line 643.
SyncPolled_NoBreak(f, b) ==
  LET masterOk == StatusOk(f.loc.statusMaster)
      slaveOk == StatusOk(f.loc.statusSlave)
      f1 == [f EXCEPT !.loc.masterOk = masterOk, !.loc.slaveOk = slaveOk]
  IN Await(f1, << Wait("200") >>, "sync_waited")

\* case "sync", lines 641-644: the end of one round of the polling loop.
SyncPolled(f, b) ==
  LET masterOk == StatusOk(f.loc.statusMaster)
      slaveOk == StatusOk(f.loc.statusSlave)
      f1 == [f EXCEPT !.loc.masterOk = masterOk, !.loc.slaveOk = slaveOk]
  IN IF masterOk /\ slaveOk
     THEN SyncAfterPoll(f1, b)
     ELSE Await(f1, << Wait("200") >>, "sync_waited")

\* case "sync", line 638: i++ and the loop test.
SyncWaited(f, b) ==
  LET f1 == [f EXCEPT !.loc.i = @ + 1]
  IN IF f1.loc.i < Retries
     THEN Await(f1, BothStatuses({"state", "time"}), "sync_polled")
     ELSE SyncAfterPoll(f1, b)

\* case "play", lines 285-325.
PlayQueried(f) ==
  Await(f,
        PlayBlock(ResumingFromPause(f.loc.statusMaster, f.loc.statusSlave),
                  f.loc.masterFile, f.loc.slaveFile),
        "play_started")

\* case "play", lines 327-335.
PlayStarted(f) ==
  IF ~f.loc.updatedStatusMaster.ok \/ ~f.loc.updatedStatusSlave.ok
  THEN Throw(f)
  ELSE Await(f,
             FullscreenBlock(f.loc.updatedStatusMaster.fullscreen,
                             f.loc.updatedStatusSlave.fullscreen),
             "play_fullscreen")

\* case "play", lines 337-340.
PlayDone(f) ==
  Break(f,
        IF ResumingFromPause(f.loc.statusMaster, f.loc.statusSlave)
        THEN "Playback resumed from paused position."
        ELSE "Playback started in sync after 1-second buffer. Rate set to 1.0x.")

\* PauseQueried with the test of statusMaster alone.
PauseQueried_MasterOnly(f) ==
  LET statusMaster == f.loc.statusMaster
      statusSlave == f.loc.statusSlave
      maxTime == Max(TimeOrZero(statusMaster), TimeOrZero(statusSlave))
  IN IF ~statusMaster.ok
     THEN ReturnError(f, "Could not retrieve VLC status.")
     ELSE Await(f,
                PauseBlock(maxTime, statusMaster.state = "playing",
                           statusSlave.state = "playing"),
                "pause_sent")

\* case "pause", lines 463-485.
PauseQueried(f) ==
  LET statusMaster == f.loc.statusMaster
      statusSlave == f.loc.statusSlave
      maxTime == Max(TimeOrZero(statusMaster), TimeOrZero(statusSlave))
  IN IF ~statusMaster.ok \/ ~statusSlave.ok
     THEN ReturnError(f, "Could not retrieve VLC status.")
     ELSE Await(f,
                PauseBlock(maxTime, statusMaster.state = "playing",
                           statusSlave.state = "playing"),
                "pause_sent")

\* case "skip_forward", lines 514-525.
SkipForwardQueried(f) ==
  IF ~f.loc.statusMaster.ok \/ ~f.loc.statusSlave.ok
  THEN ReturnError(f, "Could not retrieve VLC status.")
  ELSE Await(f,
             SkipBlock(TimeOrZero(f.loc.statusMaster) + SkipStep,
                       TimeOrZero(f.loc.statusSlave) + SkipStep),
             "skip_forward_sent")

\* case "skip_backward", lines 532-543.
SkipBackwardQueried(f) ==
  IF ~f.loc.statusMaster.ok \/ ~f.loc.statusSlave.ok
  THEN ReturnError(f, "Could not retrieve VLC status.")
  ELSE Await(f,
             SkipBlock(Max(0, TimeOrZero(f.loc.statusMaster) - SkipStep),
                       Max(0, TimeOrZero(f.loc.statusSlave) - SkipStep)),
             "skip_backward_sent")

\* case "wakeUp", lines 589-594: !status.fullscreen of a null status throws.
WakeUpStarted(f) ==
  IF ~f.loc.statusMaster.ok \/ ~f.loc.statusSlave.ok
  THEN Throw(f)
  ELSE Await(f,
             FullscreenBlock(f.loc.statusMaster.fullscreen,
                             f.loc.statusSlave.fullscreen),
             "wakeUp_fullscreen")

\* case "fullscreen", lines 610-618, on the global statusMaster, statusSlave.
FullscreenQueried(f, g) ==
  IF ~g.statusMaster.ok \/ ~g.statusSlave.ok
  THEN Throw(f)
  ELSE Await(f,
             FullscreenBlock(g.statusMaster.fullscreen, g.statusSlave.fullscreen),
             "fullscreen_sent")

\* SyncWoken without the test of typeof status.time.
SyncWoken_NullOnly(f, b, st, who) ==
  IF ~st.ok
  THEN ReturnError(f, who \o " VLC is unreachable or failed to reload.")
  ELSE SyncReloadMaster(f, b)

\* case "sync", lines 659-664 and 675-680: the player woken is still silent.
SyncWoken(f, b, st, who) ==
  IF ~StatusOk(st)
  THEN ReturnError(f, who \o " VLC is unreachable or failed to reload.")
  ELSE SyncReloadMaster(f, b)

\* The code from the await that ended f's block to the next await.
Continue(f, b, g) ==
  CASE f.pc = "play_queried" -> PlayQueried(f)
    [] f.pc = "play_started" -> PlayStarted(f)
    [] f.pc = "play_fullscreen" -> PlayDone(f)
    [] f.pc = "pause_queried" -> PauseQueried(f)
    [] f.pc = "pause_sent" ->
         Break(f, "Both players synced and paused (no toggling).")
    [] f.pc = "stop_sent" -> Break(f, "Both players stopped.")
    [] f.pc = "seek_sent" -> Break(f, "Seek command sent.")
    [] f.pc = "skip_forward_queried" -> SkipForwardQueried(f)
    [] f.pc = "skip_forward_sent" -> Break(f, "Skipped forward 10 seconds.")
    [] f.pc = "skip_backward_queried" -> SkipBackwardQueried(f)
    [] f.pc = "skip_backward_sent" -> Break(f, "Skipped backward 10 seconds.")
    [] f.pc = "wakeUp_started" -> WakeUpStarted(f)
    [] f.pc = "wakeUp_fullscreen" ->
         Break(f, "Wake-up completed: media loaded, rate set, playback started smoothly.")
    [] f.pc = "fullscreen_queried" -> FullscreenQueried(f, g)
    [] f.pc = "fullscreen_sent" -> Break(f, "Both players playing.")
    [] f.pc = "sync_polled" -> SyncPolled(f, b)
    [] f.pc = "sync_waited" -> SyncWaited(f, b)
    [] f.pc = "sync_master_woken" -> SyncWoken(f, b, f.loc.statusMaster, "Master")
    [] f.pc = "sync_slave_woken" -> SyncWoken(f, b, f.loc.statusSlave, "Slave")
    [] f.pc = "sync_master_reloaded" -> SyncReloadSlave(f, b)
    [] f.pc = "sync_slave_reloaded" -> SyncCompare(f, b)
    [] f.pc = "sync_corrected" -> SyncCorrected(f, b)
    [] f.pc = "setSpeed_sent" -> Break(f, "Speed set on both players.")
    [] f.pc = "resetSpeed_sent" -> Break(f, "Speed reset to 1.0x on both players.")

\* Run the handler until it awaits something or ends.
RECURSIVE Advance(_, _, _)
Advance(f, b, g) ==
  IF f.todo = <<>> /\ f.pc \notin Ended
  THEN Advance(Continue(f, b, g), b, g)
  ELSE f

\* ------------------------------------------------------------ the endpoint

Body(command, masterFile, slaveFile, seekValue, speed) ==
  [command |-> command, masterFile |-> masterFile, slaveFile |-> slaveFile,
   seekValue |-> seekValue, speed |-> speed]

\* The request bodies tried.  A field no case reads for a command is absent;
\* the cases that use the paths, and "stop", get every pair of path
\* arguments, the others come without paths (which paths.txt then supplies,
\* or the request is turned down).
Bodies ==
  {Body(c, m, s, JUndef, JUndef) :
     c \in {"savePaths", "wakeUp", "play", "stop"}, m \in MasterArgs, s \in SlaveArgs}
  \cup
  {Body(c, JUndef, JUndef, JUndef, JUndef) :
     c \in {"pause", "skip_forward", "skip_backward", "fullscreen",
            "resetSpeed", "reboot"}}
  \cup
  {Body("seek", JUndef, JUndef, v, JUndef) : v \in JSValues}
  \cup
  {Body("setSpeed", JUndef, JUndef, JUndef, v) : v \in JSValues}
  \cup
  {Body("sync", JUndef, JUndef, JUndef, v) : v \in {JUndef, JNum(MaxNum)}}

\* Front without the return of lines 263-267.
Front_NoCheck(b, file) ==
  LET masterFile0 == b.masterFile
      slaveFile0 == IF ~Truthy(b.slaveFile) THEN b.masterFile ELSE b.slaveFile
      paths == readPaths(file)
  IN IF b.command # "savePaths"
     THEN [masterFile |-> Or(masterFile0, paths.masterFile),
           slaveFile |-> Or(slaveFile0, paths.slaveFile),
           rejected |-> FALSE]
     ELSE [masterFile |-> masterFile0, slaveFile |-> slaveFile0, rejected |-> FALSE]

\* Front without line 255: slaveFile is the caller's or that of paths.txt.
Front_NoFallback(b, file) ==
  LET paths == readPaths(file)
  IN IF b.command # "savePaths"
     THEN LET masterFile == Or(b.masterFile, paths.masterFile)
              slaveFile == Or(b.slaveFile, paths.slaveFile)
          IN [masterFile |-> masterFile, slaveFile |-> slaveFile,
              rejected |-> ~Truthy(masterFile) \/ ~Truthy(slaveFile)]
     ELSE [masterFile |-> b.masterFile, slaveFile |-> b.slaveFile, rejected |-> FALSE]

\* Lines 254-268: the legacy fallback of slaveFile, the paths of paths.txt
\* for what the caller left out, and the check that both are there.
Front(b, file) ==
  LET masterFile0 == b.masterFile
      slaveFile0 == IF ~Truthy(b.slaveFile) THEN b.masterFile ELSE b.slaveFile
      paths == readPaths(file)
  IN IF b.command # "savePaths"
     THEN LET masterFile == Or(masterFile0, paths.masterFile)
              slaveFile == Or(slaveFile0, paths.slaveFile)
          IN [masterFile |-> masterFile, slaveFile |-> slaveFile,
              rejected |-> ~Truthy(masterFile) \/ ~Truthy(slaveFile)]
     ELSE [masterFile |-> masterFile0, slaveFile |-> slaveFile0, rejected |-> FALSE]

\* case "savePaths": writeFileSync succeeds (written) or throws.
SavePathsCase(f, masterFile, slaveFile, written) ==
  IF SavePathsValid(masterFile, slaveFile)
  THEN IF written
       THEN ReturnMessage(f, "Paths saved successfully.")
       ELSE ReturnError(f, "Failed to save paths")
  ELSE ReturnError(f, "Missing file paths.")

\* The switch, up to the first await of the case.  masterFile and slaveFile
\* are kept in the frame by the cases that read them: "play" and "sync"
\* declare their own from readPaths, "wakeUp" and "savePaths" read the
\* handler's.
Switch(b, file, masterFile, slaveFile, written) ==
  LET f == [Frame0 EXCEPT !.loc.masterFile = masterFile, !.loc.slaveFile = slaveFile]
      paths == readPaths(file)
      own == [Frame0 EXCEPT !.loc.masterFile = paths.masterFile,
                            !.loc.slaveFile = paths.slaveFile]
      pathsMissing == ~Truthy(paths.masterFile) \/ ~Truthy(paths.slaveFile)
  IN CASE b.command = "play" ->
            IF pathsMissing
            THEN ReturnError(own, "File paths not found. Save them first.")
            ELSE Await(own, BothStatuses({"state"}), "play_queried")
       [] b.command = "pause" ->
            Await(Frame0, BothStatuses({"state", "time"}), "pause_queried")
       [] b.command = "stop" -> Await(Frame0, StopBlock, "stop_sent")
       [] b.command = "seek" ->
            IF SeekValueValid(b.seekValue)
            THEN Await(Frame0, SeekBlock(b.seekValue), "seek_sent")
            ELSE ReturnError(Frame0, "Invalid or missing seek value.")
       [] b.command = "skip_forward" ->
            Await(Frame0, BothStatuses({"time"}), "skip_forward_queried")
       [] b.command = "skip_backward" ->
            Await(Frame0, BothStatuses({"time"}), "skip_backward_queried")
       [] b.command = "wakeUp" ->
            IF Truthy(masterFile) /\ Truthy(slaveFile)
            THEN Await(f, WakeUpBlock(masterFile, slaveFile), "wakeUp_started")
            ELSE ReturnError(f, "File paths not found. Save them first.")
       [] b.command = "fullscreen" ->
            Await(Frame0, FullscreenQueryBlock, "fullscreen_queried")
       [] b.command = "sync" ->
            IF pathsMissing
            THEN ReturnError(own, "File paths not found. Save them first.")
            ELSE Await(own, BothStatuses({"state", "time"}), "sync_polled")
       [] b.command = "setSpeed" -> SetSpeedCase(Frame0, b)
       [] b.command = "resetSpeed" -> Await(Frame0, ResetSpeedBlock, "resetSpeed_sent")
       [] b.command = "savePaths" -> SavePathsCase(f, masterFile, slaveFile, written)
       [] OTHER -> ReturnError(Frame0, "Invalid command.")

\* app.post("/control"), from the arrival of the request to its first await.
Handle(b, file, g, written) ==
  LET front == Front(b, file)
  IN IF front.rejected
     THEN ReturnError(Frame0, "No file paths found. Please save file paths first.")
     ELSE Advance(Switch(b, file, front.masterFile, front.slaveFile, written), b, g)

\* FileAfter with the file written before writeFileSync has succeeded.
FileAfter_Unwritten(b, file, written) ==
  LET front == Front(b, file)
  IN IF /\ b.command = "savePaths"
        /\ SavePathsValid(front.masterFile, front.slaveFile)
     THEN SavedFile(TemplateText(front.masterFile), TemplateText(front.slaveFile))
     ELSE file

\* FileAfter with the master's line written and the slave's line kept.
FileAfter_MasterLine(b, file, written) ==
  LET front == Front(b, file)
  IN IF /\ b.command = "savePaths"
        /\ SavePathsValid(front.masterFile, front.slaveFile)
        /\ written
     THEN SavedFile(TemplateText(front.masterFile), LastValue(file, "SLAVE_VIDEO_PATH"))
     ELSE file

\* paths.txt after the request has been taken up: savePaths(masterFile,
\* slaveFile) is the only writer.
FileAfter(b, file, written) ==
  LET front == Front(b, file)
  IN IF /\ b.command = "savePaths"
        /\ SavePathsValid(front.masterFile, front.slaveFile)
        /\ written
     THEN SavedFile(TemplateText(front.masterFile), TemplateText(front.slaveFile))
     ELSE file

\* ------------------------------------------------------------------- state

VARIABLES
  file,   \* paths.txt
  glob,   \* statusMaster and statusSlave of the global object
  req,    \* req.body of each client's request
  pc,     \* where each handler continues when its block is done
  todo,   \* the awaits left of each handler's block
  loc,    \* each handler's local variables
  resp,   \* the responses sent to each client's request
  log,    \* what each handler has sent to the players and waited for
  errs,   \* whether control_errors.log got a line from each handler
  own     \* history: what the status queries of each handler of case
          \* "fullscreen" returned to it (the code keeps them in glob only)

vars == << file, glob, req, pc, todo, loc, resp, log, errs, own >>

NoBody == Body("", JUndef, JUndef, JUndef, JUndef)

\* Before their first assignment the globals are undefined.
NoGlobals == [statusMaster |-> NullStatus, statusSlave |-> NullStatus]

\* paths.txt when the server starts: absent, left by an earlier run, or
\* edited by hand down to the master's line.
InitialFiles ==
  {NoFile, SavedFile("a.mp4", "b.mp4"), << Line("MASTER_VIDEO_PATH", "a.mp4") >>}

Init ==
  /\ file \in InitialFiles
  /\ glob = NoGlobals
  /\ req = [r \in Clients |-> NoBody]
  /\ pc = [r \in Clients |-> "idle"]
  /\ todo = [r \in Clients |-> <<>>]
  /\ loc = [r \in Clients |-> Loc0]
  /\ resp = [r \in Clients |-> <<>>]
  /\ log = [r \in Clients |-> <<>>]
  /\ errs = [r \in Clients |-> FALSE]
  /\ own = [r \in Clients |-> NoGlobals]

FrameOf(r) == [pc |-> pc[r], todo |-> todo[r], loc |-> loc[r], resp |-> resp[r]]

SetFrame(r, f) ==
  /\ pc' = [pc EXCEPT ![r] = f.pc]
  /\ todo' = [todo EXCEPT ![r] = f.todo]
  /\ loc' = [loc EXCEPT ![r] = f.loc]
  /\ resp' = [resp EXCEPT ![r] = f.resp]

\* A request arrives for a client that has none pending: the handler runs to
\* its first await.
Receive(r) ==
  /\ pc[r] = "idle"
  /\ \E b \in Bodies, written \in BOOLEAN :
       /\ req' = [req EXCEPT ![r] = b]
       /\ SetFrame(r, Handle(b, file, glob, written))
       /\ file' = FileAfter(b, file, written)
  /\ UNCHANGED << glob, log, errs, own >>

\* Whether a handler of case "fullscreen" other than r's is under way.  The
\* case assigns the global statusMaster and statusSlave before it reads
\* them, so with none under way their values can no longer be read.
FullscreenUnderWay(r) ==
  \E q \in Clients \ {r} : req[q].command = "fullscreen" /\ pc[q] \notin Ended

\* The handler has ended and the request is over: its frame is dropped, and
\* so are the values of the globals that nothing can read any more.
Finish(r) ==
  /\ pc[r] \in {"done", "crashed"}
  /\ req' = [req EXCEPT ![r] = NoBody]
  /\ SetFrame(r, Frame0)
  /\ log' = [log EXCEPT ![r] = <<>>]
  /\ errs' = [errs EXCEPT ![r] = FALSE]
  /\ glob' = IF FullscreenUnderWay(r) THEN glob ELSE NoGlobals
  /\ own' = [own EXCEPT ![r] = NoGlobals]
  /\ UNCHANGED file

\* SendCommand without the catch of lines 109-112: a failed fetch throws in
\* the handler.
SendCommand_Throws(r) ==
  /\ todo[r] # <<>>
  /\ Head(todo[r]).k = "send"
  /\ log' = [log EXCEPT ![r] = Append(@, Effect(Head(todo[r])))]
  /\ \E sent \in BOOLEAN :
       /\ errs' = [errs EXCEPT ![r] = @ \/ ~sent]
       /\ SetFrame(r, IF sent
                      THEN Advance([FrameOf(r) EXCEPT !.todo = Tail(@)], req[r], glob)
                      ELSE Throw(FrameOf(r)))
  /\ UNCHANGED << file, glob, req, own >>

\* sendCommand: the fetch ends, with the player's answer or with an error
\* that is logged; the caller reads neither.
SendCommand(r) ==
  /\ todo[r] # <<>>
  /\ Head(todo[r]).k = "send"
  /\ log' = [log EXCEPT ![r] = Append(@, Effect(Head(todo[r])))]
  /\ \E sent \in BOOLEAN : errs' = [errs EXCEPT ![r] = @ \/ ~sent]
  /\ SetFrame(r, Advance([FrameOf(r) EXCEPT !.todo = Tail(@)], req[r], glob))
  /\ UNCHANGED << file, glob, req, own >>

\* Delay with readPaths called again when the handler resumes.
Delay_Rereads(r) ==
  /\ todo[r] # <<>>
  /\ Head(todo[r]).k = "wait"
  /\ log' = [log EXCEPT ![r] = Append(@, Effect(Head(todo[r])))]
  /\ SetFrame(r, Advance([FrameOf(r) EXCEPT !.todo = Tail(@),
                                            !.loc.masterFile = readPaths(file).masterFile,
                                            !.loc.slaveFile = readPaths(file).slaveFile],
                         req[r], glob))
  /\ UNCHANGED << file, glob, req, errs, own >>

\* setTimeout fires.
Delay(r) ==
  /\ todo[r] # <<>>
  /\ Head(todo[r]).k = "wait"
  /\ log' = [log EXCEPT ![r] = Append(@, Effect(Head(todo[r])))]
  /\ SetFrame(r, Advance([FrameOf(r) EXCEPT !.todo = Tail(@)], req[r], glob))
  /\ UNCHANGED << file, glob, req, errs, own >>

\* getVLCStatus: the fetch ends with a status document, or with an error
\* that is logged and null.  The players answer with a reply of `allowed`.
GetStatusFrom(r, allowed) ==
  /\ todo[r] # <<>>
  /\ Head(todo[r]).k = "get"
  /\ log' = [log EXCEPT ![r] = Append(@, Effect(Head(todo[r])))]
  /\ \E st \in StatusReplies(Head(todo[r]).live) \cap allowed :
       LET dest == Head(todo[r]).dest
           g == CASE dest = "global.statusMaster" -> [glob EXCEPT !.statusMaster = st]
                  [] dest = "global.statusSlave" -> [glob EXCEPT !.statusSlave = st]
                  [] OTHER -> glob
           l == IF dest \in DOMAIN loc[r] THEN [loc[r] EXCEPT ![dest] = st] ELSE loc[r]
       IN /\ glob' = g
          /\ own' = CASE dest = "global.statusMaster" -> [own EXCEPT ![r].statusMaster = st]
                      [] dest = "global.statusSlave" -> [own EXCEPT ![r].statusSlave = st]
                      [] OTHER -> own
          /\ errs' = [errs EXCEPT ![r] = @ \/ ~st.ok]
          /\ SetFrame(r, Advance([FrameOf(r) EXCEPT !.todo = Tail(@), !.loc = l],
                                 req[r], g))
  /\ UNCHANGED << file, req >>

\* getVLCStatus with players that may answer anything.
GetStatus(r) == GetStatusFrom(r, {NullStatus} \cup Documents)

\* The server takes up a request only when no other is being handled.
OneAtATime(r) == \A q \in Clients \ {r} : pc[q] = "idle"

Next ==
  \E r \in Clients :
    \/ OneAtATime(r) /\ Receive(r)
    \/ SendCommand(r)
    \/ Delay(r)
    \/ GetStatus(r)
    \/ Finish(r)

Spec == Init /\ [][Next]_vars

\* ------------------------------------------------------ requests that overlap

\* The handler is suspended at every await, and express takes up the next
\* request then: the handlers of several requests are under way at once.
\* The requests tried here: two saves of different pairs of paths, and the
\* cases that wait on the players between their reads of paths.txt or of
\* the global statusMaster and statusSlave.
ParBodies ==
  {Body("savePaths", JStr("a.mp4"), JStr("b.mp4"), JUndef, JUndef),
   Body("savePaths", JStr("c.mp4"), JStr("d.mp4"), JUndef, JUndef)}
  \cup
  {Body(c, JUndef, JUndef, JUndef, JUndef) : c \in {"play", "sync", "fullscreen"}}

\* The overlaps tried, of two requests at a time: a save with any request,
\* one "fullscreen" with another.
Compatible(r, b) ==
  LET others == {q \in Clients \ {r} : pc[q] # "idle"}
  IN \/ others = {}
     \/ \E q \in others :
          /\ others = {q}
          /\ \/ b.command = "savePaths"
             \/ req[q].command = "savePaths"
             \/ b.command = "fullscreen" /\ req[q].command = "fullscreen"

\* The players' replies tried here: no answer, or a status with any state
\* and fullscreen flag, with no elapsed time or at the start of the media.
ParReplies == {NullStatus} \cup {d \in Documents : d.time = 0}

\* A request arrives while others are being handled.
ReceivePar(r) ==
  /\ pc[r] = "idle"
  /\ \E b \in ParBodies, written \in BOOLEAN :
       /\ Compatible(r, b)
       /\ req' = [req EXCEPT ![r] = b]
       /\ SetFrame(r, Handle(b, file, glob, written))
       /\ file' = FileAfter(b, file, written)
  /\ UNCHANGED << glob, log, errs, own >>

NextPar ==
  \E r \in Clients :
    \/ ReceivePar(r)
    \/ SendCommand(r)
    \/ Delay(r)
    \/ GetStatusFrom(r, ParReplies)
    \/ Finish(r)

SpecPar == Init /\ [][NextPar]_vars

\* ----------------------------------------------------------------- claims

\* What the handler of r has sent to the players: its log without the
\* status queries and the delays.
Commands(r) == SelectSeq(log[r], LAMBDA e : e.cmd \notin {"status", "delay"})

Sent(to, cmd, val) == [to |-> to, path |-> StatusPath, cmd |-> cmd, val |-> val]

\* The positions of seq that hold an entry for `to` with command `cmd`.
Where(seq, to, cmd) == {i \in DOMAIN seq : seq[i].to = to /\ seq[i].cmd = cmd}

Keys(object) == {kv[1] : kv \in object}
IsError(responses) == Len(responses) = 1 /\ Keys(responses[1]) = {"error"}
IsMessage(responses) == Len(responses) = 1 /\ Keys(responses[1]) = {"message"}

\* The request passed the endpoint's resolution of the paths.
Dispatched(r) ==
  /\ req[r].command # ""
  /\ resp[r] # << Json("error", "No file paths found. Please save file paths first.") >>

\* A player's elapsed time, 0 when the status has none.
Elapsed(st) == IF st.hasTime THEN st.time ELSE 0

\* C1: in a pause whose two status queries succeeded, both players are sent
\* a seek to the larger of the two elapsed times, and both seeks are sent
\* before any pause command.
C1_PauseSeeksBothToMaxFirst ==
  \A r \in Clients :
    req[r].command = "pause" =>
      LET cmds == Commands(r)
          maxTime == Max(Elapsed(loc[r].statusMaster), Elapsed(loc[r].statusSlave))
          seekMaster == Sent("master", "seek", ToString(maxTime))
          seekSlave == Sent("slave", "seek", ToString(maxTime))
      IN /\ \A i \in DOMAIN cmds :
              cmds[i].cmd = "pl_pause" =>
                /\ \E j \in 1 .. (i - 1) : cmds[j] = seekMaster
                /\ \E j \in 1 .. (i - 1) : cmds[j] = seekSlave
         /\ (pc[r] = "done" /\ loc[r].statusMaster.ok /\ loc[r].statusSlave.ok) =>
              /\ \E j \in DOMAIN cmds : cmds[j] = seekMaster
              /\ \E j \in DOMAIN cmds : cmds[j] = seekSlave
              /\ \A j \in DOMAIN cmds : cmds[j].cmd = "seek" => cmds[j].val = ToString(maxTime)

C1_Witness ==
  \E r \in Clients :
    /\ req[r].command = "pause"
    /\ pc[r] = "done"
    /\ loc[r].statusMaster.ok /\ loc[r].statusSlave.ok
    /\ Elapsed(loc[r].statusMaster) > Elapsed(loc[r].statusSlave)
    /\ Elapsed(loc[r].statusSlave) > 0
    /\ Where(Commands(r), "master", "pl_pause") # {}
    /\ Where(Commands(r), "slave", "pl_pause") # {}

\* C2: in a pause whose two status queries succeeded, a player is sent a
\* pause command if and only if its queried state was "playing" (a pause
\* with a failed query is C22's).
C2_PauseOnlyThePlaying ==
  \A r \in Clients :
    (req[r].command = "pause" /\ loc[r].statusMaster.ok /\ loc[r].statusSlave.ok) =>
      LET cmds == Commands(r)
      IN /\ Where(cmds, "master", "pl_pause") # {} => loc[r].statusMaster.state = "playing"
         /\ Where(cmds, "slave", "pl_pause") # {} => loc[r].statusSlave.state = "playing"
         /\ pc[r] = "done" =>
              /\ loc[r].statusMaster.state = "playing" =>
                   Cardinality(Where(cmds, "master", "pl_pause")) = 1
              /\ loc[r].statusSlave.state = "playing" =>
                   Cardinality(Where(cmds, "slave", "pl_pause")) = 1

C2_Witness ==
  \E r \in Clients :
    /\ req[r].command = "pause"
    /\ pc[r] = "done"
    /\ loc[r].statusMaster.state = "playing"
    /\ loc[r].statusSlave.state = "paused"
    /\ Where(Commands(r), "master", "pl_pause") # {}
    /\ Where(Commands(r), "slave", "pl_pause") = {}

\* The sync of r has ended with both final elapsed times defined.
SyncEndedWithTimes(r) ==
  /\ req[r].command = "sync"
  /\ pc[r] = "done"
  /\ loc[r].statusMaster.ok /\ loc[r].statusMaster.hasTime
  /\ loc[r].statusSlave.ok /\ loc[r].statusSlave.hasTime

FinalDrift(r) == Abs(loc[r].statusMaster.time - loc[r].statusSlave.time)

\* C3: a sync whose final drift exceeds 0.5 s sends exactly one seek: to the
\* player that is behind, to the other's elapsed time + 1 s; then both
\* players are sent play.
C3_SyncSeeksTheOneBehind ==
  \A r \in Clients :
    (SyncEndedWithTimes(r) /\ FinalDrift(r) > Threshold) =>
      LET cmds == Commands(r)
          masterTime == loc[r].statusMaster.time
          slaveTime == loc[r].statusSlave.time
          behind == IF masterTime < slaveTime THEN "master" ELSE "slave"
          ahead == Max(masterTime, slaveTime)
          seeks == {i \in DOMAIN cmds : cmds[i].cmd = "seek"}
      IN /\ Cardinality(seeks) = 1
         /\ \A i \in seeks :
              /\ cmds[i] = Sent(behind, "seek", ToString(ahead + Lead))
              /\ \E j \in (i + 1) .. Len(cmds) : cmds[j] = Sent("master", "pl_play", "")
              /\ \E j \in (i + 1) .. Len(cmds) : cmds[j] = Sent("slave", "pl_play", "")

C3_Witness ==
  \E r \in Clients :
    /\ SyncEndedWithTimes(r)
    /\ loc[r].statusMaster.time = loc[r].statusSlave.time + Threshold + 1
    /\ \E i \in DOMAIN Commands(r) : Commands(r)[i].to = "slave" /\ Commands(r)[i].cmd = "seek"

\* C4: a sync whose final drift is at most 0.5 s sends no seek.
C4_SyncToleratesSmallDrift ==
  \A r \in Clients :
    (SyncEndedWithTimes(r) /\ FinalDrift(r) <= Threshold) =>
      \A i \in DOMAIN log[r] : log[r][i].cmd # "seek"

C4_Witness ==
  \E r \in Clients :
    /\ SyncEndedWithTimes(r)
    /\ FinalDrift(r) = Threshold
    /\ loc[r].statusMaster.state = "playing"
    /\ loc[r].statusSlave.state = "playing"

\* A number above 0, as a JSON number or as its decimal text.
PositiveNumber(v) ==
  \/ v.t = "number" /\ v.n > 0
  \/ v.t = "string" /\ \E n \in 1 .. MaxNum : v.s = ToString(n)

\* C5: a setSpeed with a valid speed > 0 that the endpoint dispatched sends
\* set-rate with that value to the master and to the slave, and nothing else
\* to anyone.
C5_SetSpeedSendsTheRateToBoth ==
  \A r \in Clients :
    (req[r].command = "setSpeed" /\ PositiveNumber(req[r].speed)
       /\ Dispatched(r) /\ pc[r] = "done") =>
      LET cmds == Commands(r)
      IN /\ Len(cmds) = 2
         /\ cmds[1].to = "master" /\ cmds[2].to = "slave"
         /\ \A i \in 1 .. 2 :
              /\ cmds[i].cmd = "rate"
              /\ cmds[i].path = StatusPath
              /\ StringToNumber(cmds[i].val) = ToNumber(req[r].speed)
         /\ \A i \in DOMAIN log[r] : log[r][i].to \in {"master", "slave", "timer"}

C5_Witness ==
  \E r \in Clients :
    /\ req[r].command = "setSpeed"
    /\ req[r].speed = JNum(MaxNum)
    /\ pc[r] = "done"
    /\ Len(Commands(r)) = 2

\* Not a number: neither a JSON number nor the decimal text of one.
NonNumeric(v) ==
  /\ v.t # "number"
  /\ ~(v.t = "string" /\ \E n \in Nums : v.s = ToString(n))

\* C6: a seek whose value is non-numeric or absent sends nothing and is
\* answered with an error.
C6_SeekRejectsNonNumbers ==
  \A r \in Clients :
    (req[r].command = "seek" /\ NonNumeric(req[r].seekValue) /\ pc[r] = "done") =>
      /\ log[r] = <<>>
      /\ IsError(resp[r])

\* C7: a seek whose value is a finite number, 0 included, with a selection
\* available, sends a seek to that value to both players and is answered
\* with a message.
C7_SeekAcceptsEveryNumber ==
  \A r \in Clients :
    (req[r].command = "seek" /\ req[r].seekValue.t = "number"
       /\ Dispatched(r) /\ pc[r] = "done") =>
      /\ Commands(r) = << Sent("master", "seek", ToString(req[r].seekValue.n)),
                          Sent("slave", "seek", ToString(req[r].seekValue.n)) >>
      /\ IsMessage(resp[r])

\* The step in which client r's savePaths request is handled.
SavePathsStep(r) == pc[r] = "idle" /\ req'[r].command = "savePaths"

\* C8 as stated: a savePaths in which masterFile or slaveFile is empty is
\* answered with an error and leaves paths.txt as it was.
C8_AsStated ==
  [][\A r \in Clients :
       (SavePathsStep(r)
          /\ (~Truthy(req'[r].masterFile) \/ ~Truthy(req'[r].slaveFile))) =>
         (file' = file /\ IsError(resp'[r]))]_vars

\* C8, amended: a savePaths in which masterFile is empty is answered with an
\* error and leaves paths.txt as it was, every time (with a masterFile and no
\* slaveFile the master's path is saved for both).
C8_SaveWithoutMasterChangesNothing ==
  [][\A r \in Clients :
       (SavePathsStep(r) /\ ~Truthy(req'[r].masterFile)) =>
         (file' = file /\ IsError(resp'[r]))]_vars

C8_Witness ==
  \E r \in Clients :
    /\ req[r].command = "savePaths"
    /\ req[r].masterFile = JStr("")
    /\ req[r].slaveFile = JStr("b.mp4")
    /\ pc[r] = "done"
    /\ IsError(resp[r])
    /\ file = SavedFile("a.mp4", "a.mp4")

\* The one position of seq with an entry for `to` and `cmd` (0 when there is
\* none or more than one).
The(seq, to, cmd) ==
  IF Cardinality(Where(seq, to, cmd)) = 1
  THEN CHOOSE i \in Where(seq, to, cmd) : TRUE
  ELSE 0

\* The play of r has gone through its play commands.
PlayStartedFor(r) ==
  /\ req[r].command = "play"
  /\ pc[r] \in {"play_fullscreen", "done", "crashed"}
  /\ log[r] # <<>>

\* C9: a play in which neither queried state is "paused" sends to each
\* player enqueue, pl_next, rate 1.0, seek 0, then waits the settle delay,
\* then sends play, in this order; a play in which one is "paused" sends no
\* enqueue, pl_next, rate or seek, and sends play to both.
C9_PlayColdStartOrResume ==
  \A r \in Clients :
    PlayStartedFor(r) =>
      LET paused == \/ loc[r].statusMaster.state = "paused"
                    \/ loc[r].statusSlave.state = "paused"
      IN IF ~paused
         THEN \A p \in {"master", "slave"} :
                /\ 0 < The(log[r], p, "in_enqueue")
                /\ The(log[r], p, "in_enqueue") < The(log[r], p, "pl_next")
                /\ The(log[r], p, "pl_next") < The(log[r], p, "rate")
                /\ log[r][The(log[r], p, "rate")].val = "1.0"
                /\ The(log[r], p, "rate") < The(log[r], p, "seek")
                /\ log[r][The(log[r], p, "seek")].val = "0"
                /\ \E w \in Where(log[r], "timer", "delay") :
                     /\ log[r][w].val = "1000"
                     /\ The(log[r], p, "seek") < w
                     /\ w < The(log[r], p, "pl_play")
         ELSE /\ \A i \in DOMAIN log[r] :
                   log[r][i].cmd \notin {"in_enqueue", "pl_next", "rate", "seek"}
              /\ \A p \in {"master", "slave"} : The(log[r], p, "pl_play") > 0

C9_Witness ==
  \E r \in Clients :
    /\ PlayStartedFor(r)
    /\ pc[r] = "done"
    /\ ~loc[r].statusMaster.ok
    /\ loc[r].statusSlave.state = "playing"
    /\ The(log[r], "slave", "in_enqueue") > 0

\* C10: a request gets at most one response, and the response has a message
\* or an error, never both.
C10_OneResponseOfOneKind ==
  \A r \in Clients :
    /\ Len(resp[r]) <= 1
    /\ \A i \in DOMAIN resp[r] :
         /\ Cardinality(resp[r][i]) = 1
         /\ Keys(resp[r][i]) \in {{"message"}, {"error"}}

C10_Witness ==
  \E r \in Clients :
    /\ req[r].command = "sync"
    /\ pc[r] = "done"
    /\ IsMessage(resp[r])
    /\ \E i \in DOMAIN log[r] : log[r][i].cmd = "seek"

\* C11: every request whose handling has ended was answered, with a message
\* or with an error; no handler ends without a response.
C11_EveryRequestAnswered ==
  \A r \in Clients :
    pc[r] \in {"done", "crashed"} => (IsMessage(resp[r]) \/ IsError(resp[r]))

\* C12 as stated: every stop sends pl_stop to the master and to the slave
\* and is answered with a message, with or without paths to be found.
C12_AsStated ==
  \A r \in Clients :
    (req[r].command = "stop" /\ pc[r] = "done") =>
      /\ Commands(r) = << Sent("master", "pl_stop", ""), Sent("slave", "pl_stop", "") >>
      /\ IsMessage(resp[r])

\* C12, amended: a stop that passed the endpoint's resolution of the paths
\* sends pl_stop to the master and to the slave, nothing else, and is
\* answered with the message, whether or not the commands got through; a
\* stop turned down for want of paths sends nothing and gets the error.
C12_StopOnceDispatched ==
  \A r \in Clients :
    (req[r].command = "stop" /\ pc[r] = "done") =>
      IF Dispatched(r)
      THEN /\ log[r] = << Sent("master", "pl_stop", ""), Sent("slave", "pl_stop", "") >>
           /\ resp[r] = << Json("message", "Both players stopped.") >>
      ELSE /\ log[r] = <<>>
           /\ IsError(resp[r])

C12_Witness ==
  \E r \in Clients :
    /\ req[r].command = "stop"
    /\ req[r].masterFile = JStr("a.mp4")
    /\ file = NoFile
    /\ pc[r] = "done"
    /\ errs[r]
    /\ IsMessage(resp[r])
    /\ Len(Commands(r)) = 2

\* What the caller left out, taken from paths.txt and from nowhere else.
FromStore(v, stored) == IF Truthy(v) THEN TemplateText(v) ELSE stored

\* The request of r is for a case other than "savePaths".
Transport(r) == req[r].command \notin {"", "savePaths"}

NoFilePaths == << Json("error", "No file paths found. Please save file paths first.") >>

\* C13 as stated: a request other than savePaths for which the caller and
\* paths.txt together leave the master's or the slave's path empty gets the
\* error, and nothing is sent or queried.
C13_AsStated ==
  \A r \in Clients :
    (/\ Transport(r)
     /\ \/ FromStore(req[r].masterFile, LastValue(file, "MASTER_VIDEO_PATH")) = ""
        \/ FromStore(req[r].slaveFile, LastValue(file, "SLAVE_VIDEO_PATH")) = "") =>
      /\ log[r] = <<>>
      /\ pc[r] = "done" => IsError(resp[r])

\* The paths as lines 254-261 resolve them: the caller's masterFile or the
\* one of paths.txt; the caller's slaveFile, or else the caller's
\* masterFile, or else the one of paths.txt.
ResolvedMaster(r) == FromStore(req[r].masterFile, LastValue(file, "MASTER_VIDEO_PATH"))
ResolvedSlave(r) ==
  FromStore(req[r].slaveFile,
            FromStore(req[r].masterFile, LastValue(file, "SLAVE_VIDEO_PATH")))

\* C13, amended: a request other than savePaths whose master or slave path
\* is empty after the endpoint's resolution (in which a slaveFile left out
\* is first the caller's masterFile, then the one of paths.txt) gets the
\* no-file-paths error, and nothing is sent or queried.
C13_NoPathsNoCommand ==
  \A r \in Clients :
    (Transport(r) /\ (ResolvedMaster(r) = "" \/ ResolvedSlave(r) = "")) =>
      /\ pc[r] = "done"
      /\ resp[r] = NoFilePaths
      /\ log[r] = <<>>

C13_Witness ==
  \E r \in Clients :
    /\ req[r].command = "wakeUp"
    /\ req[r].masterFile = JStr("")
    /\ req[r].slaveFile = JStr("b.mp4")
    /\ file = NoFile
    /\ resp[r] = NoFilePaths
    /\ log[r] = <<>>

\* The wakeUp of r has enqueued the media on both players.
WakeUpEnqueued(r) ==
  /\ req[r].command = "wakeUp"
  /\ Where(log[r], "master", "in_enqueue") # {}
  /\ Where(log[r], "slave", "in_enqueue") # {}

\* C14 as stated: a wakeUp with a masterFile and no slaveFile enqueues on
\* the slave the slave's path of paths.txt.
C14_AsStated ==
  \A r \in Clients :
    (WakeUpEnqueued(r) /\ Truthy(req[r].masterFile) /\ ~Truthy(req[r].slaveFile)) =>
      \A i \in Where(log[r], "slave", "in_enqueue") :
        log[r][i].val = LastValue(file, "SLAVE_VIDEO_PATH")

\* C14, amended: a wakeUp with a masterFile and no slaveFile enqueues the
\* caller's masterFile on the master and on the slave, whatever paths.txt
\* holds; a wakeUp with neither enqueues the two paths of paths.txt.
C14_SlavePathFallsBackToMaster ==
  \A r \in Clients :
    (WakeUpEnqueued(r) /\ ~Truthy(req[r].slaveFile)) =>
      \A p \in {"master", "slave"} :
        \A i \in Where(log[r], p, "in_enqueue") :
          log[r][i].val =
            IF Truthy(req[r].masterFile)
            THEN TemplateText(req[r].masterFile)
            ELSE LastValue(file, IF p = "master" THEN "MASTER_VIDEO_PATH"
                                                 ELSE "SLAVE_VIDEO_PATH")

C14_Witness ==
  \E r \in Clients :
    /\ WakeUpEnqueued(r)
    /\ req[r].masterFile = JStr("a.mp4")
    /\ req[r].slaveFile = JUndef
    /\ file = SavedFile("a.mp4", "b.mp4")
    /\ log[r][2] = Sent("slave", "in_enqueue", "a.mp4")

\* C15 as stated: paths.txt changes only in the handling of a savePaths
\* whose masterFile and slaveFile are both non-empty.
C15_AsStated ==
  [][file' # file =>
       \E r \in Clients :
         /\ SavePathsStep(r)
         /\ Truthy(req'[r].masterFile)
         /\ Truthy(req'[r].slaveFile)]_vars

\* C15, amended: paths.txt changes only in the handling of a savePaths with
\* a non-empty masterFile that is answered with the message of success, and
\* then holds the caller's masterFile and the caller's slaveFile (the
\* masterFile again when the slaveFile is empty); a savePaths answered with
\* an error, and every other request, leaves it as it was.
C15_OnlyASuccessfulSaveWrites ==
  [][/\ file' # file =>
          \E r \in Clients :
            /\ SavePathsStep(r)
            /\ Truthy(req'[r].masterFile)
            /\ resp'[r] = << Json("message", "Paths saved successfully.") >>
            /\ file' = SavedFile(TemplateText(req'[r].masterFile),
                                 TemplateText(Or(req'[r].slaveFile, req'[r].masterFile)))
     /\ \A r \in Clients :
          (SavePathsStep(r) /\ IsError(resp'[r])) => file' = file]_vars

C15_Witness ==
  \E r \in Clients :
    /\ req[r].command = "savePaths"
    /\ req[r].masterFile = JStr("a.mp4")
    /\ req[r].slaveFile = JStr("")
    /\ IsMessage(resp[r])
    /\ file = SavedFile("a.mp4", "a.mp4")

\* The texts of the validation errors.
ValidationErrors ==
  {"Invalid or missing seek value.",
   "Invalid speed value. Must be a positive number.",
   "No file paths found. Please save file paths first.",
   "File paths not found. Save them first.",
   "Missing file paths."}

\* C16: a request answered with a validation error has sent no command to
\* either player.
C16_NoCommandBeforeValidationError ==
  \A r \in Clients :
    (\E text \in ValidationErrors : resp[r] = << Json("error", text) >>) =>
      Commands(r) = <<>>

\* ---- case "sync": the polling, the reachability steps, the reloads

\* The polling loop of r's sync is over: it broke off with both players
\* answering, or it ran its rounds.
PastPolling(r) ==
  /\ req[r].command = "sync"
  /\ \/ loc[r].masterOk /\ loc[r].slaveOk
     \/ loc[r].i = Retries

\* masterOk, slaveOk
OkOf(r, who) == IF who = "master" THEN loc[r].masterOk ELSE loc[r].slaveOk
\* statusMaster, statusSlave
StatusOf(r, who) == IF who = "master" THEN loc[r].statusMaster ELSE loc[r].statusSlave
\* The path of paths.txt for the player.
StoredPath(who) ==
  LastValue(file, IF who = "master" THEN "MASTER_VIDEO_PATH" ELSE "SLAVE_VIDEO_PATH")
Other(who) == IF who = "master" THEN "slave" ELSE "master"

\* What the log holds of a load-and-play, of the delay and of a status query.
InPlay(who) == [to |-> who, path |-> BasePath, cmd |-> "in_play", val |-> StoredPath(who)]
Delayed(ms) == [to |-> "timer", path |-> "", cmd |-> "delay", val |-> ms]
Queried(who) == [to |-> who, path |-> StatusPath, cmd |-> "status", val |-> ""]

\* The length of the log of a polling loop that ran all its rounds.
PollLength == 3 * Retries

BothUnreachable == << Json("error", "Both VLC systems are unreachable.") >>

\* C17: a sync whose polling ended with neither player reporting an elapsed
\* time is answered with the both-unreachable error and has sent no
\* command; that error is given in no other case.
C17_BothUnreachableNoCommand ==
  \A r \in Clients :
    /\ (PastPolling(r) /\ ~loc[r].masterOk /\ ~loc[r].slaveOk) =>
         /\ pc[r] = "done"
         /\ resp[r] = BothUnreachable
         /\ Commands(r) = <<>>
         /\ Len(log[r]) = PollLength
    /\ resp[r] = BothUnreachable =>
         (PastPolling(r) /\ ~loc[r].masterOk /\ ~loc[r].slaveOk)

C17_Witness ==
  \E r \in Clients :
    /\ PastPolling(r)
    /\ loc[r].statusMaster = NullStatus
    /\ loc[r].statusSlave.ok /\ ~loc[r].statusSlave.hasTime
    /\ resp[r] = BothUnreachable

\* The error that names the player.
Unreachable(who) ==
  << Json("error", (IF who = "master" THEN "Master" ELSE "Slave")
                     \o " VLC is unreachable or failed to reload.") >>

\* The polling of r's sync ended with `who` alone not reporting a time.
OnlyUnreachable(r, who) ==
  PastPolling(r) /\ ~OkOf(r, who) /\ OkOf(r, Other(who))

\* C18: in a sync whose polling ended with one player alone not reporting
\* an elapsed time, the first thing sent is one in_play of that player's
\* path of paths.txt, to that player, followed by the delay and by a status
\* query of that player; when that query has no elapsed time either, the
\* sync is answered with the error naming the player and has sent nothing
\* but the in_play.
C18_OneUnreachableIsWoken ==
  \A r \in Clients : \A who \in {"master", "slave"} :
    /\ OnlyUnreachable(r, who) =>
         /\ Len(log[r]) >= PollLength
         /\ Len(log[r]) < PollLength + 3 => todo[r] # <<>>
         /\ Len(log[r]) > PollLength => log[r][PollLength + 1] = InPlay(who)
         /\ Len(log[r]) > PollLength + 1 => log[r][PollLength + 2] = Delayed("350")
         /\ Len(log[r]) > PollLength + 2 => log[r][PollLength + 3] = Queried(who)
         /\ (Len(log[r]) = PollLength + 3 /\ ~StatusOk(StatusOf(r, who))) =>
              /\ pc[r] = "done"
              /\ resp[r] = Unreachable(who)
              /\ Commands(r) = << InPlay(who) >>
    /\ resp[r] = Unreachable(who) =>
         (OnlyUnreachable(r, who) /\ Commands(r) = << InPlay(who) >>)

C18_Witness ==
  \E r \in Clients :
    /\ OnlyUnreachable(r, "slave")
    /\ loc[r].statusSlave.ok /\ ~loc[r].statusSlave.hasTime
    /\ resp[r] = Unreachable("slave")
    /\ Commands(r) = << InPlay("slave") >>

\* The first position of r's log with a command (one past the end when
\* there is none): what comes before it is the polling.
FirstCommand(r) ==
  LET at == {i \in DOMAIN log[r] : log[r][i].cmd \notin {"status", "delay"}}
  IN IF at = {} THEN Len(log[r]) + 1 ELSE CHOOSE i \in at : \A j \in at : i <= j

\* The status queries of the polling to one player.
PollQueries(r, who) ==
  Cardinality({i \in 1 .. (FirstCommand(r) - 1) : log[r][i] = Queried(who)})

\* C19: the polling of a sync queries each player at most 3 times, the two
\* players in turn, and once a round has found both with an elapsed time
\* (round i, counted from 0) the queries stay at the i + 1 of each player.
C19_AtMostThreeRounds ==
  \A r \in Clients :
    req[r].command = "sync" =>
      /\ PollQueries(r, "master") <= Retries
      /\ PollQueries(r, "slave") <= PollQueries(r, "master")
      /\ PollQueries(r, "master") <= PollQueries(r, "slave") + 1
      /\ loc[r].i <= Retries
      /\ (loc[r].masterOk /\ loc[r].slaveOk) =>
           /\ PollQueries(r, "master") = loc[r].i + 1
           /\ PollQueries(r, "slave") = loc[r].i + 1
           /\ \A j \in 1 .. (FirstCommand(r) - 1) :
                log[r][j] = Delayed("200") => j < 3 * (loc[r].i + 1)

C19_Witness ==
  \E r \in Clients :
    /\ req[r].command = "sync"
    /\ pc[r] = "done"
    /\ loc[r].masterOk /\ loc[r].slaveOk
    /\ loc[r].i = 1
    /\ PollQueries(r, "slave") = 2
    /\ IsMessage(resp[r])

\* The in_play commands r's sync has sent to the player.
InPlays(r, who) == Where(log[r], who, "in_play")

\* The player was sent the in_play of lines 686-709 (one more than the one
\* that wakes a player the polling did not reach).
Reloaded(r, who) ==
  Cardinality(InPlays(r, who)) > (IF OkOf(r, who) THEN 0 ELSE 1)

\* r's sync has come to the comparison of the times.
Compared(r) ==
  /\ PastPolling(r)
  /\ \/ pc[r] \in {"sync_corrected", "setSpeed_sent", "crashed"}
     \/ /\ pc[r] = "done"
        /\ resp[r] \notin {BothUnreachable, Unreachable("master"), Unreachable("slave")}

\* r's sync is about to send the in_play of lines 686-709 to the player.
Reloading(r, who) ==
  /\ req[r].command = "sync"
  /\ pc[r] = (IF who = "master" THEN "sync_master_reloaded" ELSE "sync_slave_reloaded")
  /\ Len(todo[r]) = 3

\* C20: in a sync past the reachability steps, a player is sent the in_play
\* of its path only when its last status is not "playing", every in_play is
\* followed by the delay and by a status query of that player before the
\* times are compared, a player not reloaded is "playing", and a seek is
\* sent exactly when the last two statuses are more than 0.5 s apart.
C20_ReloadsWhatIsNotPlaying ==
  \A r \in Clients : \A who \in {"master", "slave"} :
    /\ Reloading(r, who) =>
         /\ StatusOf(r, who).state # "playing"
         /\ Head(todo[r]) = Send(who, BasePath, "in_play", StoredPath(who))
    /\ Compared(r) =>
         /\ ~Reloaded(r, who) => StatusOf(r, who).state = "playing"
         /\ Cardinality(InPlays(r, who)) <= 2
         /\ \A k \in InPlays(r, who) :
              /\ log[r][k] = InPlay(who)
              /\ Len(log[r]) >= k + 2
              /\ log[r][k + 1] = Delayed("350")
              /\ log[r][k + 2] = Queried(who)
    /\ SyncEndedWithTimes(r) =>
         ((\E i \in DOMAIN log[r] : log[r][i].cmd = "seek") <=> FinalDrift(r) > Threshold)

C20_Witness ==
  \E r \in Clients :
    /\ Compared(r)
    /\ pc[r] = "done"
    /\ Reloaded(r, "slave")
    /\ ~Reloaded(r, "master")
    /\ loc[r].statusSlave.state = "playing"
    /\ loc[r].statusSlave.time = loc[r].statusMaster.time + Threshold + 1
    /\ \E i \in DOMAIN log[r] : log[r][i] = Sent("master", "seek", ToString(loc[r].statusSlave.time + Lead))

\* ---- case "skip_forward", case "skip_backward", case "pause"

\* The request of r is a skip; its delta in ticks.
Skip(r) == req[r].command \in {"skip_forward", "skip_backward"}
Delta(r) == IF req[r].command = "skip_forward" THEN SkipStep ELSE 0 - SkipStep

\* C21: a skip whose two status queries succeeded sends one seek to each
\* player, to max(0, that player's own elapsed time + delta).
C21_SkipEachFromItsOwnTime ==
  \A r \in Clients :
    (Skip(r) /\ pc[r] = "done" /\ loc[r].statusMaster.ok /\ loc[r].statusSlave.ok) =>
      Commands(r) =
        << Sent("master", "seek",
                ToString(Max(0, Elapsed(loc[r].statusMaster) + Delta(r)))),
           Sent("slave", "seek",
                ToString(Max(0, Elapsed(loc[r].statusSlave) + Delta(r)))) >>

C21_Witness ==
  \E r \in Clients :
    /\ req[r].command = "skip_backward"
    /\ pc[r] = "done"
    /\ loc[r].statusMaster.ok /\ loc[r].statusMaster.time = SkipStep + MaxTime
    /\ loc[r].statusSlave.ok /\ loc[r].statusSlave.time = 1
    /\ Commands(r) = << Sent("master", "seek", ToString(MaxTime)),
                        Sent("slave", "seek", "0") >>

StatusUnavailable == << Json("error", "Could not retrieve VLC status.") >>

\* C22: a pause or a skip one of whose two status queries failed is
\* answered with the status error and sends no command; that error is given
\* in no other case.
C22_NoStatusNoCommand ==
  \A r \in Clients :
    /\ (/\ Skip(r) \/ req[r].command = "pause"
        /\ Len(log[r]) >= 2
        /\ ~loc[r].statusMaster.ok \/ ~loc[r].statusSlave.ok) =>
         /\ pc[r] = "done"
         /\ resp[r] = StatusUnavailable
         /\ log[r] = << Queried("master"), Queried("slave") >>
    /\ resp[r] = StatusUnavailable =>
         /\ Skip(r) \/ req[r].command = "pause"
         /\ ~loc[r].statusMaster.ok \/ ~loc[r].statusSlave.ok

C22_Witness ==
  \E r \in Clients :
    /\ req[r].command = "pause"
    /\ loc[r].statusMaster.state = "playing"
    /\ ~loc[r].statusSlave.ok
    /\ resp[r] = StatusUnavailable
    /\ Commands(r) = <<>>

\* ---- sendCommand

\* The step is the end of a sendCommand of r's handler.
SendStep(r) ==
  /\ todo[r] # <<>>
  /\ Head(todo[r]).k = "send"
  /\ log'[r] # log[r]

\* C23: when a send of r's handler ends, with or without an error, the
\* command is in the log once more and the handler goes on with the rest of
\* its block as it stood (the next command is not dropped, the command is
\* not sent again, no local and no response changes), or, the block done,
\* with what its code makes of its locals, its request and the globals.
C23_SendsDoNotDependOnFailures ==
  [][\A r \in Clients :
       SendStep(r) =>
         /\ log'[r] = Append(log[r], Effect(Head(todo[r])))
         /\ IF Tail(todo[r]) # <<>>
            THEN /\ todo'[r] = Tail(todo[r])
                 /\ pc'[r] = pc[r]
                 /\ loc'[r] = loc[r]
                 /\ resp'[r] = resp[r]
            ELSE [pc |-> pc'[r], todo |-> todo'[r], loc |-> loc'[r], resp |-> resp'[r]]
                   = Advance([FrameOf(r) EXCEPT !.todo = <<>>], req[r], glob)]_vars

C23_Witness ==
  \E r \in Clients :
    /\ req[r].command = "seek"
    /\ errs[r]
    /\ Len(log[r]) = 1
    /\ log[r][1].to = "master"
    /\ Len(todo[r]) = 1
    /\ Head(todo[r]).to = "slave"
    /\ Head(todo[r]).cmd = "seek"

\* C26: a sync without a speed, with paths saved, in which both players
\* answered, are playing and are within 0.5 s of each other, is answered
\* with a message.
C26_SyncInSyncSucceeds ==
  \A r \in Clients :
    (/\ SyncEndedWithTimes(r)
     /\ req[r].speed = JUndef
     /\ loc[r].statusMaster.state = "playing"
     /\ loc[r].statusSlave.state = "playing"
     /\ FinalDrift(r) <= Threshold) =>
      IsMessage(resp[r])

\* ---- requests that overlap

\* What the savePaths with body b writes.
WrittenBy(b) ==
  SavedFile(TemplateText(b.masterFile), TemplateText(Or(b.slaveFile, b.masterFile)))

Saved(r) == resp[r] = << Json("message", "Paths saved successfully.") >>

\* C24: with requests overlapping, paths.txt changes only in the step that
\* handles a savePaths answered with success, after every such step it
\* holds the two paths of that request, and so it always holds the pair of
\* one save or what it held at the start.
C24_WholeRecordLastWriter ==
  [][/\ file' # file =>
          \E r \in Clients : SavePathsStep(r) /\ Saved(r)' /\ file' = WrittenBy(req'[r])
     /\ \A r \in Clients :
          (SavePathsStep(r) /\ Saved(r)') => file' = WrittenBy(req'[r])
     /\ file' \in InitialFiles \cup {WrittenBy(b) : b \in {c \in ParBodies : c.command = "savePaths"}}
    ]_vars

C24_Witness ==
  \E r, q \in Clients :
    /\ req[r] = Body("savePaths", JStr("a.mp4"), JStr("b.mp4"), JUndef, JUndef)
    /\ Saved(r)
    /\ req[q] = Body("savePaths", JStr("c.mp4"), JStr("d.mp4"), JUndef, JUndef)
    /\ Saved(q)
    /\ file = SavedFile("c.mp4", "d.mp4")

\* What r's own status query of the player returned (case "fullscreen").
OwnStatus(r, who) == IF who = "master" THEN own[r].statusMaster ELSE own[r].statusSlave

\* C25: a fullscreen request whose own two status queries succeeded ends
\* with a response, having sent the fullscreen command to exactly the
\* players whose status, as its own query returned it, was not fullscreen.
C25_FullscreenDecidesOnOwnStatus ==
  \A r \in Clients :
    (/\ req[r].command = "fullscreen"
     /\ pc[r] \in {"done", "crashed"}
     /\ OwnStatus(r, "master").ok
     /\ OwnStatus(r, "slave").ok) =>
      /\ pc[r] = "done"
      /\ \A who \in {"master", "slave"} :
           (Where(log[r], who, "fullscreen") # {}) <=> ~OwnStatus(r, who).fullscreen

\* The request of r is a play or a sync.
ReadsOnce(r) == req[r].command \in {"play", "sync"}

\* C27: with saves overlapping, the masterFile and slaveFile of a play or a
\* sync that was not turned down for want of paths are those of paths.txt
\* when the request arrived, they stay as they
\* are while it is handled, and every in_enqueue and in_play names the one
\* of the player it goes to.
C27_PathsFromOneRead ==
  [][\A r \in Clients :
       /\ (pc[r] = "idle" /\ ReadsOnce(r)' /\ pc'[r] # "done") =>
            /\ loc'[r].masterFile = readPaths(file).masterFile
            /\ loc'[r].slaveFile = readPaths(file).slaveFile
       /\ (ReadsOnce(r) /\ ReadsOnce(r)') =>
            /\ loc'[r].masterFile = loc[r].masterFile
            /\ loc'[r].slaveFile = loc[r].slaveFile
       /\ ReadsOnce(r)' =>
            \A i \in DOMAIN log'[r] :
              log'[r][i].cmd \in {"in_enqueue", "in_play"} =>
                log'[r][i].val =
                  TemplateText(IF log'[r][i].to = "master"
                               THEN loc'[r].masterFile
                               ELSE loc'[r].slaveFile)
    ]_vars

C27_Witness ==
  \E r \in Clients :
    /\ req[r].command = "play"
    /\ file = SavedFile("c.mp4", "d.mp4")
    /\ log[r] # <<>>
    /\ todo[r] # <<>>
    /\ log[r][Len(log[r])] = Sent("master", "in_enqueue", "a.mp4")
    /\ Head(todo[r]) = Send("slave", StatusPath, "in_enqueue", "b.mp4")

====
